---- MODULE Spec2Model ----
(***************************************************************************)
(* A model of the Lensa artwork recognition engine                         *)
(* (src/artwork_recognition.py): the artwork_features table, the batch     *)
(* ingestion loop of build_reference_database and the scan of              *)
(* recognize_artwork; and of the counters of MetDataPipeline.run and the  *)
(* retries of MetDataPipeline._get_json (src/met_data_pipeline.py).        *)
(*                                                                         *)
(* Descriptors.  An ORB descriptor is a 256-bit vector compared by Hamming *)
(* distance.  The model draws its descriptors from the vectors that are    *)
(* constant on each of NumBlocks equal blocks of bits; such a vector is    *)
(* written as the integer whose k-th binary digit is the value of block k, *)
(* and the Hamming distance of two of them is BlockBits times the number   *)
(* of blocks in which they differ.                                         *)
(*                                                                         *)
(* Numbers.  The floating point values of the code are modelled exactly:   *)
(* the ratio threshold is given in tenths, and a confidence score is the   *)
(* fraction <<numerator, denominator>> with a positive denominator.        *)
(***************************************************************************)
EXTENDS Integers, Sequences, FiniteSets, TLC

VARIABLES
    features,            \* table artwork_features: sequence of rows, in rowid order
    txn,                 \* table artwork_features as the writing connection sees it:
                         \* features and the write it has not committed yet
    ing_pc,              \* build_reference_database: "idle", "loop", "done", "raised"
    artworks,            \* build_reference_database: the rows fetched at line 113
    ing_idx,             \* build_reference_database: rows of the for loop already handled
    success_count,       \* build_reference_database: success_count
    descriptors,         \* build_reference_database: descriptors of line 131
    prior,               \* history: the descriptors of the row the last save replaced
    printed,             \* build_reference_database: the status lines printed
    ing_ret,             \* build_reference_database: what the call gave its caller
    rec_pc,              \* recognize_artwork: "idle", "returned"
    query_desc,          \* recognize_artwork: query_desc
    min_matches,         \* recognize_artwork: min_matches
    match_threshold,     \* recognize_artwork: match_threshold, in tenths
    snapshot,            \* recognize_artwork: cursor.fetchall() of line 188
    raised,              \* recognize_artwork: snapshot positions where knnMatch raised cv2.error
    scan_log,            \* recognize_artwork: what the loop did with each snapshot row
    best_match,          \* recognize_artwork: best_match (0 stands for None)
    best_score,          \* recognize_artwork: best_score
    best_matches_count,  \* recognize_artwork: best_matches_count
    result,              \* recognize_artwork: the value returned, or the exception raised
    sc_pc,               \* scoring harness: "in", "out"
    sc_args,             \* scoring harness: two (good count, distance sum) inputs
    sc_out,              \* scoring harness: the two confidences computed
    run_pc,              \* MetDataPipeline.run: "off", "new", "head", "fetch", "download",
                         \* "summary", "done", "raised"
    stats,               \* MetDataPipeline: self.stats
    candidate_ids,       \* MetDataPipeline.run: candidate_ids
    cand_pos,            \* MetDataPipeline.run: candidates the for loop has taken
    target_count,        \* MetDataPipeline.run: target_count
    max_retries,         \* MetDataPipeline: self.max_retries
    gj                   \* MetDataPipeline._get_json: the call in progress or just returned

vars == <<features, txn, ing_pc, artworks, ing_idx, success_count, descriptors, prior,
          printed, ing_ret,
          rec_pc, query_desc, min_matches, match_threshold, snapshot, raised,
          scan_log, best_match, best_score, best_matches_count, result,
          sc_pc, sc_args, sc_out,
          run_pc, stats, candidate_ids, cand_pos, target_count, max_retries, gj>>

ingVars == <<ing_pc, artworks, ing_idx, success_count, descriptors, prior,
            printed, ing_ret>>

recVars == <<rec_pc, query_desc, min_matches, match_threshold, snapshot, raised,
             scan_log, best_match, best_score, best_matches_count, result>>

scVars == <<sc_pc, sc_args, sc_out>>

metVars == <<run_pc, stats, candidate_ids, cand_pos, target_count, max_retries, gj>>

----------------------------------------------------------------------------
(* Bounds of the model. *)

NumArtworks == 3

NumBlocks == 8

MaxRaised == 1

MaxScoreGood == 4

MaxCandidates == 3

MaxTarget == 2

MaxCollectErrors == 1

(* Constants of the program. *)

DescriptorBits == 256

DefaultMinMatches == 30

DefaultMatchThreshold == 7

DistanceScale == 100

DefaultMaxRetries == 3

----------------------------------------------------------------------------
(* Descriptors and their Hamming distance. *)

BlockBits == DescriptorBits \div NumBlocks

Descriptor == 0..(2^NumBlocks - 1)

RECURSIVE DiffBlocks(_, _, _)
DiffBlocks(a, b, k) ==
    IF k = 0 THEN 0
    ELSE (IF a % 2 # b % 2 THEN 1 ELSE 0) + DiffBlocks(a \div 2, b \div 2, k - 1)

Hamming(a, b) == BlockBits * DiffBlocks(a, b, NumBlocks)

RECURSIVE Iota(_)
Iota(n) == IF n = 0 THEN << >> ELSE Append(Iota(n - 1), n - 1)

(* The descriptor sets the model's images yield. *)
DescA == <<0, 5>>

DescB == <<60, 243>>

DescZ == <<0, 0>>

DescOne == <<255>>

DescL == Iota(DefaultMinMatches)

DescQ == <<0, 3>>

----------------------------------------------------------------------------
(* pickle.dumps and pickle.loads of a descriptor array: the blob holds the *)
(* array's shape and its bits, row after row.                              *)

Bit(d, k) == (d \div (2^(k - 1))) % 2

pickle_dumps(desc) ==
    [shape |-> <<Len(desc), NumBlocks>>,
     data  |-> [i \in 1..(Len(desc) * NumBlocks) |->
                   Bit(desc[((i - 1) \div NumBlocks) + 1], ((i - 1) % NumBlocks) + 1)]]

RECURSIVE RowValueReversed(_, _, _)
RowValueReversed(data, from, k) ==
    IF k = 0 THEN 0
    ELSE data[from] * 2^(k - 1) + RowValueReversed(data, from + 1, k - 1)

RECURSIVE RowValue(_, _, _)
RowValue(data, from, k) ==
    IF k = 0 THEN 0
    ELSE data[from] + 2 * RowValue(data, from + 1, k - 1)

pickle_loads(blob) ==
    [r \in 1..blob.shape[1] |->
        RowValue(blob.data, (r - 1) * blob.shape[2] + 1, blob.shape[2])]

----------------------------------------------------------------------------
(* The tables.  Table artworks is fixed: its rows all carry an image_url,  *)
(* and their ids are 1..NumArtworks (AUTOINCREMENT starts at 1).           *)

Artworks == 1..NumArtworks

ArtworkRows == [i \in 1..NumArtworks |-> i]

(* The images an artwork's image_url can serve, as the descriptors ORB     *)
(* finds in them.                                                          *)
ImageVersions(a) ==
    CASE a = 1 -> {DescA, DescZ}
      [] a = 2 -> {DescA, DescB}
      [] OTHER -> {DescL, DescOne}

(* pickle.dumps, looked up for the descriptor sets of the model *)
dumpsTable == [d \in UNION {ImageVersions(a) : a \in Artworks} |-> pickle_dumps(d)]

Dumps(d) == IF d \in DOMAIN dumpsTable THEN dumpsTable[d] ELSE pickle_dumps(d)

(* pickle.loads, looked up for the blobs of the model *)
loadsTable ==
    [blob \in {dumpsTable[d] : d \in DOMAIN dumpsTable} |-> pickle_loads(blob)]

Loads(blob) == IF blob \in DOMAIN loadsTable THEN loadsTable[blob] ELSE pickle_loads(blob)

(* The uniqueness constraint of artwork_features that INSERT OR REPLACE    *)
(* resolves conflicts on.                                                  *)
ConflictKey(row) == <<row.artwork_id, row.feature_type>>

InsertOnly(table, row) == Append(table, row)

(* INSERT OR REPLACE INTO artwork_features: the rows in conflict with the  *)
(* new row are deleted, then the new row is inserted.                      *)
InsertOrReplace(table, row) ==
    LET Keep(r) == ConflictKey(r) # ConflictKey(row)
    IN  Append(SelectSeq(table, Keep), row)

NoValue == [kind |-> "pending"]

NoneValue == [kind |-> "None"]

NoLines == [lines |-> << >>, summary |-> << >>]

(* The descriptors stored for a key, << >> when it has no row. *)
StoredFor(table, key) ==
    IF \E i \in 1..Len(table) : ConflictKey(table[i]) = key
    THEN Loads(table[CHOOSE i \in 1..Len(table) :
                         ConflictKey(table[i]) = key].feature_descriptor)
    ELSE << >>

----------------------------------------------------------------------------
(* build_reference_database *)

RecIdle == rec_pc = "idle"

BuildStart ==
    /\ ing_pc = "idle"
    /\ RecIdle
    /\ artworks' = ArtworkRows
    /\ ing_idx' = 0
    /\ success_count' = 0
    /\ printed' = NoLines
    /\ ing_ret' = NoValue
    /\ ing_pc' = "loop"
    /\ UNCHANGED <<features, txn, descriptors, prior, recVars, scVars, metVars>>

InLoop == ing_pc = "loop" /\ ing_idx < Len(artworks) /\ RecIdle

(* download_image returned None: the fetch or the decoding failed. *)
DownloadFailed ==
    /\ InLoop
    /\ printed' = [printed EXCEPT !.lines = Append(@, "download_failed")]
    /\ ing_idx' = ing_idx + 1
    /\ UNCHANGED <<features, txn, ing_pc, artworks, success_count, descriptors, prior,
                   ing_ret, recVars, scVars, metVars>>

(* extract_features gave None or an empty array. *)
NoFeaturesCounted ==
    /\ InLoop
    /\ descriptors' = << >>
    /\ printed' = [printed EXCEPT !.lines = Append(@, "no_features")]
    /\ success_count' = success_count + 1
    /\ ing_idx' = ing_idx + 1
    /\ UNCHANGED <<features, txn, ing_pc, artworks, prior, ing_ret, recVars, scVars, metVars>>

NoFeaturesSaved ==
    /\ InLoop
    /\ LET row == [artwork_id |-> artworks[ing_idx + 1],
                   feature_descriptor |-> Dumps(<< >>),
                   feature_type |-> "orb"]
       IN  /\ features' = InsertOrReplace(features, row)
           /\ txn' = InsertOrReplace(features, row)
    /\ descriptors' = << >>
    /\ printed' = [printed EXCEPT !.lines = Append(@, "no_features")]
    /\ ing_idx' = ing_idx + 1
    /\ UNCHANGED <<ing_pc, artworks, success_count, prior, ing_ret, recVars, scVars, metVars>>

NoFeatures ==
    /\ InLoop
    /\ descriptors' = << >>
    /\ printed' = [printed EXCEPT !.lines = Append(@, "no_features")]
    /\ ing_idx' = ing_idx + 1
    /\ UNCHANGED <<features, txn, ing_pc, artworks, success_count, prior, ing_ret,
                   recVars, scVars, metVars>>

SaveFeatures ==
    /\ InLoop
    /\ \E d \in ImageVersions(artworks[ing_idx + 1]) :
          LET row == [artwork_id |-> artworks[ing_idx + 1],
                      feature_descriptor |-> Dumps(d),
                      feature_type |-> "orb"]
          IN  /\ descriptors' = d
              /\ prior' = StoredFor(features, ConflictKey(row))
              /\ features' = InsertOrReplace(features, row)
              /\ txn' = InsertOrReplace(features, row)
    /\ success_count' = success_count + 1
    /\ printed' = [printed EXCEPT !.lines = Append(@, "ok")]
    /\ ing_idx' = ing_idx + 1
    /\ UNCHANGED <<ing_pc, artworks, ing_ret, recVars, scVars, metVars>>

(* cursor.execute or commit raised sqlite3.Error: nothing catches it. *)
SaveRaises ==
    /\ InLoop
    /\ ing_pc' = "raised"
    /\ ing_ret' = [kind |-> "error"]
    /\ UNCHANGED <<features, txn, artworks, ing_idx, success_count, descriptors, prior,
                   printed, recVars, scVars, metVars>>

BuildFinish ==
    /\ ing_pc = "loop"
    /\ ing_idx = Len(artworks)
    /\ RecIdle
    /\ printed' = [printed EXCEPT !.summary = <<success_count, Len(artworks)>>]
    /\ ing_ret' = NoneValue
    /\ ing_pc' = "done"
    /\ UNCHANGED <<features, txn, artworks, ing_idx, success_count, descriptors, prior,
                   recVars, scVars, metVars>>

(* The caller has the outcome; the call's frame is gone. *)
BuildReturn ==
    /\ ing_pc \in {"done", "raised"}
    /\ ing_pc' = "idle"
    /\ artworks' = << >>
    /\ ing_idx' = 0
    /\ success_count' = 0
    /\ descriptors' = << >>
    /\ prior' = << >>
    /\ printed' = NoLines
    /\ ing_ret' = NoValue
    /\ UNCHANGED <<features, txn, recVars, scVars, metVars>>

----------------------------------------------------------------------------
(* The matcher: BFMatcher(NORM_HAMMING).knnMatch(query, ref, k=2) gives,   *)
(* for every query descriptor, the distances to its nearest reference      *)
(* descriptors in ascending order: two of them, or one when the reference  *)
(* has a single descriptor.                                                *)

InsertNearest(acc, d) ==
    IF Len(acc) = 0 THEN <<d>>
    ELSE IF Len(acc) = 1
         THEN (IF d < acc[1] THEN <<d, acc[1]>> ELSE <<acc[1], d>>)
         ELSE IF d < acc[1] THEN <<d, acc[1]>>
              ELSE IF d < acc[2] THEN <<acc[1], d>> ELSE acc

RECURSIVE NearestFrom(_, _, _, _)
NearestFrom(q, ref, j, acc) ==
    IF j > Len(ref) THEN acc
    ELSE NearestFrom(q, ref, j + 1, InsertNearest(acc, Hamming(q, ref[j])))

knnMatchNearestOnly(query, ref) ==
    [i \in 1..Len(query) |-> SubSeq(NearestFrom(query[i], ref, 1, << >>), 1, 1)]

knnMatch(query, ref) ==
    [i \in 1..Len(query) |-> NearestFrom(query[i], ref, 1, << >>)]

(* The inputs of a call. *)
QueryPool == {<< >>, DescQ, DescA, DescZ, DescOne, DescL}

RefSets == UNION {ImageVersions(a) : a \in Artworks}
ThresholdPool == {5, DefaultMatchThreshold}

(* knnMatch, looked up for the descriptor sets of the model *)
knnTable == [q \in QueryPool |-> [r \in RefSets |-> knnMatch(q, r)]]

Matches(query, ref) ==
    IF query \in DOMAIN knnTable /\ ref \in DOMAIN knnTable[query]
    THEN knnTable[query][ref]
    ELSE knnMatch(query, ref)

(* Lowe's ratio test of line 203: m.distance < match_threshold * n.distance *)
RatioTestZeroZero(d1, d2, threshold) ==
    (d1 = 0 /\ d2 = 0) \/ 10 * d1 < threshold * d2

RatioTest(d1, d2, threshold) == 10 * d1 < threshold * d2

(* good_matches, as the distances m.distance of the matches kept *)
RECURSIVE GoodFrom(_, _, _)
GoodFrom(matches, threshold, i) ==
    IF i > Len(matches) THEN << >>
    ELSE LET match_pair == matches[i]
             rest == GoodFrom(matches, threshold, i + 1)
         IN  IF Len(match_pair) = 2 /\ RatioTest(match_pair[1], match_pair[2], threshold)
             THEN <<match_pair[1]>> \o rest
             ELSE rest

GoodMatches(matches, threshold) == GoodFrom(matches, threshold, 1)

RECURSIVE SumSeq(_)
SumSeq(s) == IF Len(s) = 0 THEN 0 ELSE Head(s) + SumSeq(Tail(s))

(* Fractions <<numerator, denominator>>, denominator > 0 *)
Zero == <<0, 1>>

Less(x, y) == x[1] * y[2] < y[1] * x[2]

Same(x, y) == x[1] * y[2] = y[1] * x[2]

AvgDistanceSum(good) == <<SumSeq(good), 1>>

(* avg_distance of line 211 *)
AvgDistance(good) == <<SumSeq(good), Len(good)>>

ConfidenceBlend(num_good, avg_distance) ==
    <<num_good * (DistanceScale * avg_distance[2] + avg_distance[1]),
      DistanceScale * avg_distance[2]>>

(* confidence of line 212: num_good_matches / (1 + avg_distance / 100) *)
Confidence(num_good, avg_distance) ==
    <<num_good * DistanceScale * avg_distance[2],
      DistanceScale * avg_distance[2] + avg_distance[1]>>

----------------------------------------------------------------------------
(* recognize_artwork: the loop of lines 184-218 over the fetched rows.     *)
(* The loop state is the three best_* variables; failed says that an       *)
(* iteration raised, which ends the loop; log keeps, for every row, what   *)
(* the iteration computed.                                                 *)

ScanInit ==
    [best_match |-> 0, best_score |-> Zero, best_matches_count |-> 0,
     failed |-> FALSE, log |-> << >>]

LogEntry(row, outcome, num_good, sum_dist, confidence) ==
    [artwork_id |-> row.artwork_id, outcome |-> outcome, num_good |-> num_good,
     sum_dist |-> sum_dist, confidence |-> confidence]

(* line 209 *)
EvidenceGateStrict(num_good, min) == num_good > min

EvidenceGate(num_good, min) == num_good >= min

(* line 214 *)
IsBetterOrEqual(confidence, best) == ~ Less(confidence, best)

IsBetter(confidence, best) == Less(best, confidence)

(* lines 195-196: except cv2.error: continue *)
OnMatcherErrorAbort(st, row) ==
    [st EXCEPT !.failed = TRUE,
               !.log = Append(@, LogEntry(row, "cv2_error", 0, 0, Zero))]

OnMatcherError(st, row) ==
    [st EXCEPT !.log = Append(@, LogEntry(row, "cv2_error", 0, 0, Zero))]

(* lines 190-206 for one stored blob: unpickle, match, ratio test.  The    *)
(* good matches of a row depend on nothing the loop changes.               *)
GoodOfBlob(blob, query, threshold) ==
    LET ref_desc == Loads(blob)
        matches == Matches(query, ref_desc)
    IN  GoodMatches(matches, threshold)

(* GoodOfBlob, looked up for the blobs and inputs of the model *)
goodTable ==
    [blob \in {pickle_dumps(r) : r \in RefSets} |->
        [q \in QueryPool |-> [t \in ThresholdPool |-> GoodOfBlob(blob, q, t)]]]

(* good_matches of every fetched row *)
GoodOfRows(rows, query, threshold) ==
    [i \in 1..Len(rows) |->
        LET blob == rows[i].feature_descriptor
        IN  IF /\ blob \in DOMAIN goodTable
               /\ query \in QueryPool
               /\ threshold \in ThresholdPool
            THEN goodTable[blob][query][threshold]
            ELSE GoodOfBlob(blob, query, threshold)]

(* One iteration: raises says that knnMatch raised cv2.error on the row,  *)
(* good_matches is the row's list of good matches otherwise.              *)
ScanRow(st, row, raises, good_matches, min) ==
    IF st.failed
    THEN [st EXCEPT !.log = Append(@, LogEntry(row, "not_reached", 0, 0, Zero))]
    ELSE IF raises
    THEN OnMatcherError(st, row)
    ELSE
      LET num_good_matches == Len(good_matches)
          sum_dist == SumSeq(good_matches)
      IN  IF ~ EvidenceGate(num_good_matches, min)
          THEN [st EXCEPT !.log = Append(@,
                   LogEntry(row, "below", num_good_matches, sum_dist, Zero))]
          ELSE IF num_good_matches = 0
          THEN \* sum(...) / 0 raises ZeroDivisionError
               [st EXCEPT !.failed = TRUE,
                          !.log = Append(@, LogEntry(row, "zero_division", 0, 0, Zero))]
          ELSE
            LET confidence == Confidence(num_good_matches, AvgDistance(good_matches))
                entry == LogEntry(row, "scored", num_good_matches, sum_dist, confidence)
            IN  IF IsBetter(confidence, st.best_score)
                THEN [best_match |-> row.artwork_id, best_score |-> confidence,
                      best_matches_count |-> num_good_matches,
                      failed |-> FALSE, log |-> Append(st.log, entry)]
                ELSE [st EXCEPT !.log = Append(@, entry)]

RECURSIVE ScanFrom(_, _, _, _, _, _)
ScanFrom(st, rows, good, i, R, min) ==
    IF i > Len(rows) THEN st
    ELSE ScanFrom(ScanRow(st, rows[i], i \in R, good[i], min),
                  rows, good, i + 1, R, min)

Scan(rows, R, query, min, threshold) ==
    ScanFrom(ScanInit, rows, GoodOfRows(rows, query, threshold), 1, R, min)

ResultOfUnchecked(st) ==
    IF st.failed
    THEN [kind |-> "ZeroDivisionError", artwork_id |-> 0, confidence |-> Zero,
          num_matches |-> 0]
    ELSE [kind |-> "match", artwork_id |-> st.best_match,
          confidence |-> st.best_score, num_matches |-> st.best_matches_count]

(* lines 220-223, and the exception that leaves the call *)
ResultOf(st) ==
    IF st.failed
    THEN [kind |-> "ZeroDivisionError", artwork_id |-> 0, confidence |-> Zero,
          num_matches |-> 0]
    ELSE IF st.best_match # 0
    THEN [kind |-> "match", artwork_id |-> st.best_match,
          confidence |-> st.best_score, num_matches |-> st.best_matches_count]
    ELSE [kind |-> "None", artwork_id |-> 0, confidence |-> Zero, num_matches |-> 0]

NoResult == [kind |-> "pending", artwork_id |-> 0, confidence |-> Zero, num_matches |-> 0]

(* The rows of SELECT ... FROM artwork_features af JOIN artworks a: the    *)
(* feature rows whose artwork exists, in the order of the features table.  *)
FetchAll(table) ==
    LET Joined(r) == r.artwork_id \in Artworks
    IN  SelectSeq(table, Joined)

MinMatchesPool == {0, 1, 2, DefaultMinMatches}

RaisedSets(n) == {R \in SUBSET (1..n) : Cardinality(R) <= MaxRaised}

RecognizeNoFeaturesScanned ==
    /\ rec_pc = "idle"
    /\ ing_pc = "idle"
    /\ \E min \in MinMatchesPool, threshold \in ThresholdPool :
          /\ query_desc' = << >>
          /\ min_matches' = min
          /\ match_threshold' = threshold
    /\ snapshot' = FetchAll(features)
    /\ raised' = 1..Len(FetchAll(features))
    /\ scan_log' = [i \in 1..Len(FetchAll(features)) |->
                       LogEntry(FetchAll(features)[i], "cv2_error", 0, 0, Zero)]
    /\ best_match' = 0
    /\ best_score' = Zero
    /\ best_matches_count' = 0
    /\ result' = [NoResult EXCEPT !.kind = "None"]
    /\ rec_pc' = "returned"
    /\ UNCHANGED <<features, txn, ingVars, scVars, metVars>>

(* line 170: no descriptors in the query image *)
RecognizeNoFeatures ==
    /\ rec_pc = "idle"
    /\ ing_pc = "idle"
    /\ \E min \in MinMatchesPool, threshold \in ThresholdPool :
          /\ query_desc' = << >>
          /\ min_matches' = min
          /\ match_threshold' = threshold
    /\ snapshot' = << >>
    /\ raised' = {}
    /\ scan_log' = << >>
    /\ best_match' = 0
    /\ best_score' = Zero
    /\ best_matches_count' = 0
    /\ result' = [NoResult EXCEPT !.kind = "None"]
    /\ rec_pc' = "returned"
    /\ UNCHANGED <<features, txn, ingVars, scVars, metVars>>

RecognizeScan ==
    /\ rec_pc = "idle"
    /\ ing_pc = "idle"
    /\ LET rows == FetchAll(features)
       IN  \E query \in QueryPool \ {<< >>}, threshold \in ThresholdPool :
           LET good == GoodOfRows(rows, query, threshold)
           IN  \E min \in MinMatchesPool, R \in RaisedSets(Len(rows)) :
               LET st == ScanFrom(ScanInit, rows, good, 1, R, min)
               IN  /\ query_desc' = query
                   /\ min_matches' = min
                   /\ match_threshold' = threshold
                   /\ snapshot' = rows
                   /\ raised' = R
                   /\ scan_log' = st.log
                   /\ best_match' = st.best_match
                   /\ best_score' = st.best_score
                   /\ best_matches_count' = st.best_matches_count
                   /\ result' = ResultOf(st)
    /\ rec_pc' = "returned"
    /\ UNCHANGED <<features, txn, ingVars, scVars, metVars>>

RecognizeReturnPurge ==
    /\ rec_pc = "returned"
    /\ rec_pc' = "idle"
    /\ query_desc' = << >>
    /\ min_matches' = DefaultMinMatches
    /\ match_threshold' = DefaultMatchThreshold
    /\ snapshot' = << >>
    /\ raised' = {}
    /\ scan_log' = << >>
    /\ best_match' = 0
    /\ best_score' = Zero
    /\ best_matches_count' = 0
    /\ result' = NoResult
    /\ LET Keep(r) == ~ \E k \in raised : snapshot[k] = r
       IN  features' = SelectSeq(features, Keep)
    /\ UNCHANGED <<txn, ingVars, scVars, metVars>>

(* The caller has the result; the call's frame is gone. *)
RecognizeReturn ==
    /\ rec_pc = "returned"
    /\ rec_pc' = "idle"
    /\ query_desc' = << >>
    /\ min_matches' = DefaultMinMatches
    /\ match_threshold' = DefaultMatchThreshold
    /\ snapshot' = << >>
    /\ raised' = {}
    /\ scan_log' = << >>
    /\ best_match' = 0
    /\ best_score' = Zero
    /\ best_matches_count' = 0
    /\ result' = NoResult
    /\ UNCHANGED <<features, txn, ingVars, scVars, metVars>>

----------------------------------------------------------------------------
(* MetDataPipeline (src/met_data_pipeline.py): the counters of line 71 and *)
(* a _get_json call that has not been made.                                *)

ZeroStats ==
    [candidates_checked |-> 0, saved |-> 0, images_downloaded |-> 0,
     api_errors |-> 0, fetch_failed |-> 0, db_failed |-> 0,
     download_failed |-> 0, missing_image |-> 0]

GjIdle == [pc |-> "idle", attempt |-> 0, made |-> 0, failed |-> 0,
           ret |-> "pending", errors_before |-> 0]

(* No pipeline has been constructed. *)
PipelineOff ==
    /\ run_pc = "off"
    /\ stats = ZeroStats
    /\ candidate_ids = << >>
    /\ cand_pos = 0
    /\ target_count = 0
    /\ max_retries = DefaultMaxRetries
    /\ gj = GjIdle

----------------------------------------------------------------------------
Init ==
    /\ features = << >>
    /\ txn = << >>
    /\ ing_pc = "idle"
    /\ artworks = << >>
    /\ ing_idx = 0
    /\ success_count = 0
    /\ descriptors = << >>
    /\ prior = << >>
    /\ printed = NoLines
    /\ ing_ret = NoValue
    /\ rec_pc = "idle"
    /\ query_desc = << >>
    /\ min_matches = DefaultMinMatches
    /\ match_threshold = DefaultMatchThreshold
    /\ snapshot = << >>
    /\ raised = {}
    /\ scan_log = << >>
    /\ best_match = 0
    /\ best_score = Zero
    /\ best_matches_count = 0
    /\ result = NoResult
    /\ sc_pc = "off"
    /\ sc_args = << >>
    /\ sc_out = << >>
    /\ PipelineOff

(* The scoring harness: Confidence applied to two inputs. *)
AvgPool == {<<m, 1>> : m \in {0, 32, 64, 100, 128, 256}}

ScoreInputs == (1..MaxScoreGood) \X AvgPool

InitScore ==
    /\ features = << >>
    /\ txn = << >>
    /\ ing_pc = "idle"
    /\ artworks = << >>
    /\ ing_idx = 0
    /\ success_count = 0
    /\ descriptors = << >>
    /\ prior = << >>
    /\ printed = NoLines
    /\ ing_ret = NoValue
    /\ rec_pc = "idle"
    /\ query_desc = << >>
    /\ min_matches = DefaultMinMatches
    /\ match_threshold = DefaultMatchThreshold
    /\ snapshot = << >>
    /\ raised = {}
    /\ scan_log = << >>
    /\ best_match = 0
    /\ best_score = Zero
    /\ best_matches_count = 0
    /\ result = NoResult
    /\ sc_pc = "in"
    /\ sc_args \in ScoreInputs \X ScoreInputs
    /\ sc_out = << >>
    /\ PipelineOff

ScoreApply ==
    /\ sc_pc = "in"
    /\ sc_out' = <<Confidence(sc_args[1][1], sc_args[1][2]),
                   Confidence(sc_args[2][1], sc_args[2][2])>>
    /\ sc_pc' = "out"
    /\ UNCHANGED <<features, txn, ingVars, recVars, sc_args, metVars>>

NextScore == ScoreApply

SpecScore == InitScore /\ [][NextScore]_vars

Next ==
    \/ BuildStart
    \/ DownloadFailed
    \/ NoFeatures
    \/ SaveFeatures
    \/ SaveRaises
    \/ BuildFinish
    \/ BuildReturn
    \/ RecognizeNoFeatures
    \/ RecognizeScan
    \/ RecognizeReturn

Spec == Init /\ [][Next]_vars

----------------------------------------------------------------------------
(* A reader on a connection of its own, while build_reference_database     *)
(* writes.  The INSERT OR REPLACE of line 140 is one statement in the      *)
(* writing connection's transaction, and line 146 commits it; a SELECT on  *)
(* another connection reads the rows last committed.  The reader's call is *)
(* taken at the point of its SELECT: what follows is computed on the rows  *)
(* fetched.                                                                *)

(* lines 137-144: the statement has run, the transaction is open *)
ExecuteInsert ==
    /\ InLoop
    /\ \E d \in ImageVersions(artworks[ing_idx + 1]) :
          LET row == [artwork_id |-> artworks[ing_idx + 1],
                      feature_descriptor |-> Dumps(d),
                      feature_type |-> "orb"]
          IN  /\ descriptors' = d
              /\ prior' = StoredFor(txn, ConflictKey(row))
              /\ txn' = InsertOrReplace(txn, row)
    /\ ing_pc' = "executed"
    /\ UNCHANGED <<features, artworks, ing_idx, success_count, printed, ing_ret,
                   recVars, scVars, metVars>>

(* lines 146-148 *)
CommitInsert ==
    /\ ing_pc = "executed"
    /\ RecIdle
    /\ features' = txn
    /\ success_count' = success_count + 1
    /\ printed' = [printed EXCEPT !.lines = Append(@, "ok")]
    /\ ing_idx' = ing_idx + 1
    /\ ing_pc' = "loop"
    /\ UNCHANGED <<txn, artworks, descriptors, prior, ing_ret, recVars, scVars, metVars>>

ReadUncommitted(committed, pending) == pending

(* What a SELECT on another connection sees. *)
ReadCommitted(committed, pending) == committed

ReaderQueries == {DescQ, DescA}

ReaderMinMatches == {2}

(* recognize_artwork on the reader's connection, lines 167-223 *)
SnapshotRead ==
    /\ rec_pc = "idle"
    /\ ing_pc \in {"loop", "executed", "done"}
    /\ LET rows == FetchAll(ReadCommitted(features, txn))
       IN  \E query \in ReaderQueries, min \in ReaderMinMatches :
               LET st == Scan(rows, {}, query, min, DefaultMatchThreshold)
               IN  /\ query_desc' = query
                   /\ min_matches' = min
                   /\ match_threshold' = DefaultMatchThreshold
                   /\ snapshot' = rows
                   /\ raised' = {}
                   /\ scan_log' = st.log
                   /\ best_match' = st.best_match
                   /\ best_score' = st.best_score
                   /\ best_matches_count' = st.best_matches_count
                   /\ result' = ResultOf(st)
    /\ rec_pc' = "returned"
    /\ UNCHANGED <<features, txn, ingVars, scVars, metVars>>

NextConcurrent ==
    \/ BuildStart
    \/ DownloadFailed
    \/ NoFeatures
    \/ ExecuteInsert
    \/ CommitInsert
    \/ BuildFinish
    \/ BuildReturn
    \/ SnapshotRead
    \/ RecognizeReturn

SpecConcurrent == Init /\ [][NextConcurrent]_vars

----------------------------------------------------------------------------
(* MetDataPipeline.run and the _get_json call of _fetch_object.  The       *)
(* pipeline is constructed and run as main does: run is called once, with  *)
(* a target_count of at least 1 (line 366).                                *)

MaxRetriesPool == 0..DefaultMaxRetries

TargetPool == 1..MaxTarget

(* What _collect_candidate_ids can return: distinct object ids. *)
CandidateLists == {[i \in 1..n |-> i] : n \in 0..MaxCandidates}

Bump(s, counter) == [s EXCEPT ![counter] = @ + 1]

InitPipeline ==
    /\ features = << >>
    /\ txn = << >>
    /\ ing_pc = "idle"
    /\ artworks = << >>
    /\ ing_idx = 0
    /\ success_count = 0
    /\ descriptors = << >>
    /\ prior = << >>
    /\ printed = NoLines
    /\ ing_ret = NoValue
    /\ rec_pc = "idle"
    /\ query_desc = << >>
    /\ min_matches = DefaultMinMatches
    /\ match_threshold = DefaultMatchThreshold
    /\ snapshot = << >>
    /\ raised = {}
    /\ scan_log = << >>
    /\ best_match = 0
    /\ best_score = Zero
    /\ best_matches_count = 0
    /\ result = NoResult
    /\ sc_pc = "off"
    /\ sc_args = << >>
    /\ sc_out = << >>
    /\ run_pc = "new"
    /\ stats = ZeroStats
    /\ candidate_ids = << >>
    /\ cand_pos = 0
    /\ target_count = 0
    /\ max_retries \in MaxRetriesPool
    /\ gj = GjIdle

(* lines 272-275: _collect_candidate_ids found nothing *)
RunNoCandidates ==
    /\ run_pc = "new"
    /\ \E target \in TargetPool, errors \in 0..MaxCollectErrors :
          /\ target_count' = target
          /\ stats' = [stats EXCEPT !.api_errors = @ + errors]
    /\ candidate_ids' = << >>
    /\ run_pc' = "done"
    /\ UNCHANGED <<features, txn, ingVars, recVars, scVars, cand_pos, max_retries, gj>>

(* lines 267-279: _collect_candidate_ids gave a pool, with errors of its   *)
(* _get_json calls counted in api_errors                                   *)
RunStart ==
    /\ run_pc = "new"
    /\ \E target \in TargetPool, ids \in CandidateLists \ {<< >>},
          errors \in 0..MaxCollectErrors :
          /\ target_count' = target
          /\ candidate_ids' = ids
          /\ stats' = [stats EXCEPT !.api_errors = @ + errors]
    /\ run_pc' = "head"
    /\ UNCHANGED <<features, txn, ingVars, recVars, scVars, cand_pos, max_retries, gj>>

(* line 282 *)
TargetReachedLate(saved, target) == saved > target

TargetReached(saved, target) == saved >= target

(* lines 282-283: break *)
LoopBreak ==
    /\ run_pc = "head"
    /\ cand_pos < Len(candidate_ids)
    /\ TargetReached(stats.saved, target_count)
    /\ run_pc' = "summary"
    /\ UNCHANGED <<features, txn, ingVars, recVars, scVars, stats, candidate_ids,
                   cand_pos, target_count, max_retries, gj>>

(* line 281: the for loop has no candidate left *)
LoopExhausted ==
    /\ run_pc = "head"
    /\ cand_pos = Len(candidate_ids)
    /\ run_pc' = "summary"
    /\ UNCHANGED <<features, txn, ingVars, recVars, scVars, stats, candidate_ids,
                   cand_pos, target_count, max_retries, gj>>

(* _get_json, lines 110-112 and 122: the call starts its first attempt, or *)
(* returns None when range(1, max_retries + 1) is empty                    *)
GetJsonEnter(errors_before) ==
    IF max_retries >= 1
    THEN [pc |-> "try", attempt |-> 1, made |-> 0, failed |-> 0,
          ret |-> "pending", errors_before |-> errors_before]
    ELSE [pc |-> "ret", attempt |-> 0, made |-> 0, failed |-> 0,
          ret |-> "None", errors_before |-> errors_before]

(* lines 285-286: the iteration starts and calls _fetch_object *)
IterStart ==
    /\ run_pc = "head"
    /\ cand_pos < Len(candidate_ids)
    /\ ~ TargetReached(stats.saved, target_count)
    /\ stats' = Bump(stats, "candidates_checked")
    /\ cand_pos' = cand_pos + 1
    /\ gj' = GetJsonEnter(stats.api_errors)
    /\ run_pc' = "fetch"
    /\ UNCHANGED <<features, txn, ingVars, recVars, scVars, candidate_ids,
                   target_count, max_retries>>

(* The JSON documents the API can answer with: an object with an image, an *)
(* object without one, a document without objectID.                        *)
JsonKinds == {"object_with_image", "object_without_image", "no_object"}

(* lines 114-116: the attempt succeeds and its parsed JSON is returned *)
GetJsonSucceeds ==
    /\ gj.pc = "try"
    /\ \E json \in JsonKinds :
          gj' = [gj EXCEPT !.pc = "ret", !.made = gj.attempt, !.ret = json]
    /\ UNCHANGED <<features, txn, ingVars, recVars, scVars, run_pc, stats,
                   candidate_ids, cand_pos, target_count, max_retries>>

LastAttemptAny(attempt, retries) == attempt <= retries

(* line 118 *)
LastAttempt(attempt, retries) == attempt = retries

(* lines 117-121: the attempt raised RequestException or ValueError *)
GetJsonFails ==
    /\ gj.pc = "try"
    /\ IF LastAttempt(gj.attempt, max_retries)
       THEN /\ stats' = Bump(stats, "api_errors")
            /\ gj' = [gj EXCEPT !.pc = "ret", !.made = gj.attempt,
                                !.failed = @ + 1, !.ret = "None"]
       ELSE /\ gj' = [gj EXCEPT !.attempt = @ + 1, !.made = gj.attempt,
                                !.failed = @ + 1]
            /\ stats' = stats
    /\ UNCHANGED <<features, txn, ingVars, recVars, scVars, run_pc,
                   candidate_ids, cand_pos, target_count, max_retries>>

FetchReturned == run_pc = "fetch" /\ gj.pc = "ret"

(* lines 187-188 and 287-289 *)
FetchFailed ==
    /\ FetchReturned
    /\ gj.ret \in {"None", "no_object"}
    /\ stats' = Bump(stats, "fetch_failed")
    /\ run_pc' = "head"
    /\ UNCHANGED <<features, txn, ingVars, recVars, scVars, candidate_ids,
                   cand_pos, target_count, max_retries, gj>>

(* lines 291-294 *)
MissingImage ==
    /\ FetchReturned
    /\ gj.ret = "object_without_image"
    /\ stats' = Bump(stats, "missing_image")
    /\ run_pc' = "head"
    /\ UNCHANGED <<features, txn, ingVars, recVars, scVars, candidate_ids,
                   cand_pos, target_count, max_retries, gj>>

(* lines 296-298: _save_artwork caught sqlite3.Error *)
DbFailed ==
    /\ FetchReturned
    /\ gj.ret = "object_with_image"
    /\ stats' = Bump(stats, "db_failed")
    /\ run_pc' = "head"
    /\ UNCHANGED <<features, txn, ingVars, recVars, scVars, candidate_ids,
                   cand_pos, target_count, max_retries, gj>>

(* lines 296-301: the artwork is saved *)
ArtworkSaved ==
    /\ FetchReturned
    /\ gj.ret = "object_with_image"
    /\ stats' = Bump(stats, "saved")
    /\ run_pc' = "download"
    /\ UNCHANGED <<features, txn, ingVars, recVars, scVars, candidate_ids,
                   cand_pos, target_count, max_retries, gj>>

(* lines 303-308 *)
ImageDownloaded ==
    /\ run_pc = "download"
    /\ stats' = Bump(stats, "images_downloaded")
    /\ run_pc' = "head"
    /\ UNCHANGED <<features, txn, ingVars, recVars, scVars, candidate_ids,
                   cand_pos, target_count, max_retries, gj>>

ImageDownloadFailed ==
    /\ run_pc = "download"
    /\ stats' = Bump(stats, "download_failed")
    /\ run_pc' = "head"
    /\ UNCHANGED <<features, txn, ingVars, recVars, scVars, candidate_ids,
                   cand_pos, target_count, max_retries, gj>>

(* _download_image raised what it does not catch (OSError writing the      *)
(* file): the exception leaves run in the middle of the iteration          *)
ImageDownloadRaises ==
    /\ run_pc = "download"
    /\ run_pc' = "raised"
    /\ UNCHANGED <<features, txn, ingVars, recVars, scVars, stats, candidate_ids,
                   cand_pos, target_count, max_retries, gj>>

(* lines 310-311 *)
PrintSummary ==
    /\ run_pc = "summary"
    /\ run_pc' = "done"
    /\ UNCHANGED <<features, txn, ingVars, recVars, scVars, stats, candidate_ids,
                   cand_pos, target_count, max_retries, gj>>

NextPipeline ==
    \/ RunNoCandidates
    \/ RunStart
    \/ LoopBreak
    \/ LoopExhausted
    \/ IterStart
    \/ GetJsonSucceeds
    \/ GetJsonFails
    \/ FetchFailed
    \/ MissingImage
    \/ DbFailed
    \/ ArtworkSaved
    \/ ImageDownloaded
    \/ ImageDownloadFailed
    \/ ImageDownloadRaises
    \/ PrintSummary

SpecPipeline == InitPipeline /\ [][NextPipeline]_vars

(* Every step of the pipeline ends: each request returns or raises within  *)
(* self.timeout, each sleep is finite.                                     *)
FairSpecPipeline == SpecPipeline /\ WF_vars(NextPipeline)

----------------------------------------------------------------------------
(* Vocabulary of the properties. *)

Returned == rec_pc = "returned"

DefaultGates ==
    min_matches = DefaultMinMatches /\ match_threshold = DefaultMatchThreshold

LastLine == IF printed.lines = << >> THEN "" ELSE printed.lines[Len(printed.lines)]

CountLines(kind) == Cardinality({i \in 1..Len(printed.lines) : printed.lines[i] = kind})

(* The rows of the snapshot the loop matched and filtered. *)
Measured == {i \in 1..Len(scan_log) : scan_log[i].outcome \in {"below", "scored"}}

Scored == {i \in 1..Len(scan_log) : scan_log[i].outcome = "scored"}

RefOf(i) == Loads(snapshot[i].feature_descriptor)

(* The confidence the scoring rule gives a row's evidence, whether or not  *)
(* the loop computed it: 0 without good matches.                           *)
RowConfidence(i) ==
    IF scan_log[i].num_good = 0 THEN Zero
    ELSE Confidence(scan_log[i].num_good, <<scan_log[i].sum_dist, scan_log[i].num_good>>)

(* The earliest row of maximal confidence among the rows of S. *)
BestOf(S, conf(_)) ==
    CHOOSE i \in S :
        /\ \A j \in S : ~ Less(conf(i), conf(j))
        /\ \A j \in S : Same(conf(i), conf(j)) => i <= j

(* A confidence threshold of 0.18 *)
ConfidenceThreshold == <<18, 100>>

----------------------------------------------------------------------------
\* C1: the features table never holds two rows for one (artwork_id,
\* feature_type), and right after a save the one row of that artwork holds
\* exactly the descriptors just saved, whatever it held before.
C1_Supersession ==
    /\ \A i, j \in 1..Len(features) :
          ConflictKey(features[i]) = ConflictKey(features[j]) => i = j
    /\ (ing_pc = "loop" /\ LastLine = "ok") =>
          /\ \E i \in 1..Len(features) : features[i].artwork_id = artworks[ing_idx]
          /\ StoredFor(features, <<artworks[ing_idx], "orb">>) = descriptors

\* A second save for an artwork, with descriptors other than the stored ones.
C1_Witness ==
    /\ ing_pc = "loop"
    /\ LastLine = "ok"
    /\ prior # << >>
    /\ prior # descriptors

\* C2 as stated: the call returns None whenever the row of maximal
\* confidence has a confidence below the threshold or fewer good matches
\* than min_matches, and a returned match clears both gates.
C2_Original ==
    (Returned /\ result.kind # "ZeroDivisionError" /\ Measured # {}) =>
        LET best == BestOf(Measured, RowConfidence)
        IN  /\ (\/ scan_log[best].num_good < min_matches
                \/ Less(RowConfidence(best), ConfidenceThreshold))
               => result.kind = "None"
            /\ result.kind = "match" =>
                  /\ result.num_matches >= min_matches
                  /\ ~ Less(result.confidence, ConfidenceThreshold)

\* C2, amended: the evidence gate is applied to every row before the best
\* is chosen and there is no confidence gate: a match is returned with
\* num_matches >= min_matches and a positive confidence, and None is
\* returned exactly when no matched row has min_matches good matches.
C2_EvidenceGate ==
    Returned =>
        /\ result.kind = "match" =>
              /\ result.num_matches >= min_matches
              /\ Less(Zero, result.confidence)
              /\ \E i \in Measured :
                    /\ snapshot[i].artwork_id = result.artwork_id
                    /\ scan_log[i].num_good = result.num_matches
        /\ result.kind = "None" <=>
              \A i \in 1..Len(snapshot) :
                  i \notin raised =>
                      Len(GoodMatches(Matches(query_desc, RefOf(i)), match_threshold))
                          < min_matches

\* A match is returned although a row below the evidence gate has the
\* greater confidence.
C2_Witness ==
    /\ Returned
    /\ result.kind = "match"
    /\ \E i \in Measured :
          /\ scan_log[i].outcome = "below"
          /\ Less(result.confidence, RowConfidence(i))

\* C3 as stated: the best candidate has the maximal confidence over all
\* rows of the snapshot, the earliest of them on a tie.
C3_Original ==
    (Returned /\ result.kind = "match") =>
        LET best == BestOf(Measured, RowConfidence)
        IN  /\ result.artwork_id = snapshot[best].artwork_id
            /\ Same(result.confidence, RowConfidence(best))

\* C3, amended: every row of the snapshot is visited in order (the loop
\* ends early only by the ZeroDivisionError of C4), and the best candidate
\* is the earliest row of maximal confidence among the rows that pass the
\* evidence gate.
C3_BestAmongGated ==
    Returned =>
        /\ Len(scan_log) = Len(snapshot)
        /\ \A i \in 1..Len(scan_log) :
              /\ scan_log[i].artwork_id = snapshot[i].artwork_id
              /\ scan_log[i].outcome = "not_reached" <=>
                    \E j \in 1..(i - 1) : scan_log[j].outcome = "zero_division"
        /\ LET conf(i) == scan_log[i].confidence
           IN  IF Scored = {}
               THEN best_match = 0 /\ best_score = Zero /\ best_matches_count = 0
               ELSE LET best == BestOf(Scored, conf)
                    IN  /\ best_match = snapshot[best].artwork_id
                        /\ best_score = scan_log[best].confidence
                        /\ best_matches_count = scan_log[best].num_good

\* Two rows tie at the maximal confidence and the earlier one is returned.
C3_Witness ==
    /\ Returned
    /\ result.kind = "match"
    /\ \E i, j \in Scored :
          /\ i < j
          /\ Same(scan_log[i].confidence, scan_log[j].confidence)
          /\ Same(scan_log[i].confidence, best_score)
          /\ snapshot[i].artwork_id = best_match
          /\ snapshot[j].artwork_id # best_match

\* C4: a call never raises, whatever the store and the gates: it gives a
\* match or None.
C4_NeverRaises == Returned => result.kind \in {"match", "None"}

\* C5: a row on which knnMatch raised cv2.error is skipped, the rows after
\* it are still visited, and the call gives what it gives on the snapshot
\* without that row.
C5_MatcherErrorSkipped ==
    Returned =>
        LET Kept(k) == \E i \in 1..Len(snapshot) : i \notin raised /\ snapshot[i] = k
            others == SelectSeq(snapshot, Kept)
        IN  /\ \A i \in raised :
                  /\ scan_log[i].outcome \in {"cv2_error", "not_reached"}
                  /\ (scan_log[i].outcome = "cv2_error" /\ i < Len(scan_log)) =>
                         scan_log[i + 1].outcome # "not_reached"
            /\ result = ResultOf(Scan(others, {}, query_desc, min_matches, match_threshold))

\* knnMatch raised on a row and a later row is returned as the match.
C5_Witness ==
    /\ Returned
    /\ result.kind = "match"
    /\ \E i \in raised : \E j \in Scored :
          /\ i < j
          /\ scan_log[i].outcome = "cv2_error"
          /\ snapshot[j].artwork_id = result.artwork_id

\* The good matches of a row under an acceptance rule for the pair of
\* nearest distances.
AcceptedCount(i, Accept(_, _)) ==
    LET pairs == Matches(query_desc, RefOf(i))
    IN  Cardinality({j \in 1..Len(pairs) :
                        Len(pairs[j]) = 2 /\ Accept(pairs[j][1], pairs[j][2])})

\* C6 as stated: a query descriptor is accepted iff both distances are 0
\* or d1 < ratio_threshold * d2, and good_count counts the accepted ones.
C6_Original ==
    Returned =>
        LET Accept(d1, d2) == (d1 = 0 /\ d2 = 0) \/ 10 * d1 < match_threshold * d2
        IN  \A i \in Measured : scan_log[i].num_good = AcceptedCount(i, Accept)

\* C6, amended: a query descriptor is accepted iff knnMatch gave it two
\* neighbours and d1 < match_threshold * d2 (a pair of two zero distances
\* is rejected), each descriptor on its own; num_good_matches counts them.
C6_RatioTest ==
    Returned =>
        LET Accept(d1, d2) == 10 * d1 < match_threshold * d2
        IN  \A i \in Measured :
                /\ scan_log[i].num_good = AcceptedCount(i, Accept)
                /\ Len(RefOf(i)) < 2 => scan_log[i].num_good = 0

\* A row where a query descriptor has both distances 0 and is rejected.
C6_Witness ==
    /\ Returned
    /\ \E i \in Measured :
          /\ \E j \in 1..Len(query_desc) :
                Matches(query_desc, RefOf(i))[j] = <<0, 0>>
          /\ scan_log[i].num_good < Len(query_desc)

\* The rows of the snapshot whose descriptors are those of the query.
SelfRows == {i \in Measured : RefOf(i) = query_desc}

\* The query descriptors that occur once in the query.
Distinctive ==
    {j \in 1..Len(query_desc) :
        Cardinality({k \in 1..Len(query_desc) : query_desc[k] = query_desc[j]}) = 1}

\* C7 as stated: a query with the descriptors of a stored row is
\* recognized as that row's artwork under the default gates.
C7_Original ==
    (Returned /\ DefaultGates) =>
        \A i \in SelfRows :
            /\ result.kind = "match"
            /\ result.artwork_id = snapshot[i].artwork_id

\* C7, amended: for a row with the descriptors of the query, every good
\* match has distance 0, num_good_matches is the number of query
\* descriptors that occur once in a set of at least two, and the
\* confidence is num_good_matches; under the default gates the call
\* returns a match of at least that confidence when num_good_matches >= 30
\* and does not return that artwork otherwise.
C7_SelfMatch ==
    Returned =>
        \A i \in SelfRows :
            LET n == IF Len(query_desc) < 2 THEN 0 ELSE Cardinality(Distinctive)
            IN  /\ scan_log[i].num_good = n
                /\ scan_log[i].sum_dist = 0
                /\ scan_log[i].outcome = "scored" => Same(scan_log[i].confidence, <<n, 1>>)
                /\ DefaultGates =>
                      IF n >= DefaultMinMatches
                      THEN /\ result.kind = "match"
                           /\ ~ Less(result.confidence, <<n, 1>>)
                      ELSE result.artwork_id # snapshot[i].artwork_id

\* A self-match that the default gates accept.
C7_Witness ==
    /\ Returned
    /\ DefaultGates
    /\ result.kind = "match"
    /\ \E i \in SelfRows : result.artwork_id = snapshot[i].artwork_id

\* 0.7 * good / max(min(|query|, |ref|), 1) + 0.3 * max(0, 1 - mean / 256)
BlendedConfidence(num_good, sum_dist, query_len, ref_len) ==
    LET smaller == IF query_len < ref_len THEN query_len ELSE ref_len
        norm == IF smaller < 1 THEN 1 ELSE smaller
        close == IF DescriptorBits * num_good < sum_dist THEN 0
                 ELSE DescriptorBits * num_good - sum_dist
    IN  <<7 * num_good * DescriptorBits * num_good + 3 * norm * close,
          10 * norm * DescriptorBits * num_good>>

\* C8 as stated: the confidence of a row with good matches is the blend of
\* the match ratio and the distance quality.
C8_Original ==
    Returned =>
        \A i \in Scored :
            Same(scan_log[i].confidence,
                 BlendedConfidence(scan_log[i].num_good, scan_log[i].sum_dist,
                                   Len(query_desc), Len(RefOf(i))))

\* C8, amended: a row with num_good_matches >= min_matches gets the
\* confidence num_good_matches / (1 + mean_distance / 100), mean_distance
\* the mean distance of its good matches; a row below min_matches gets none.
C8_Confidence ==
    Returned =>
        \A i \in Measured :
            LET n == scan_log[i].num_good
                c == scan_log[i].confidence
            IN  /\ scan_log[i].outcome = "scored" <=> n >= min_matches
                /\ scan_log[i].outcome = "scored" =>
                      /\ n > 0
                      /\ c[2] > 0
                      /\ c[1] * (DistanceScale * n + scan_log[i].sum_dist)
                             = DistanceScale * n * n * c[2]

\* A scored row with several good matches at a positive mean distance.
C8_Witness ==
    /\ Returned
    /\ \E i \in Scored : scan_log[i].num_good >= 2 /\ scan_log[i].sum_dist > 0

\* C9: the confidence does not decrease when the good count grows at a
\* fixed mean distance, and does not increase when the mean distance grows
\* at a fixed good count.
C9_Monotone ==
    sc_pc = "out" =>
        LET n1 == sc_args[1][1]
            a1 == sc_args[1][2]
            n2 == sc_args[2][1]
            a2 == sc_args[2][2]
        IN  /\ sc_out[1][2] > 0
            /\ sc_out[2][2] > 0
            /\ (Same(a1, a2) /\ n1 <= n2) => ~ Less(sc_out[2], sc_out[1])
            /\ (n1 = n2 /\ ~ Less(a2, a1)) => ~ Less(sc_out[1], sc_out[2])

\* Two inputs of one good count, the second of the greater mean distance
\* and the smaller confidence.
C9_Witness ==
    /\ sc_pc = "out"
    /\ sc_args[1][1] = sc_args[2][1]
    /\ Less(sc_args[1][2], sc_args[2][2])
    /\ Less(sc_out[2], sc_out[1])

\* C10 as stated: the run returns a summary that counts every candidate
\* once, as stored or under one skip reason.
C10_Original ==
    ing_pc = "done" =>
        /\ ing_ret.kind = "summary"
        /\ ing_ret.images_found = Len(artworks)
        /\ ing_ret.images_found = ing_ret.saved_features + ing_ret.skipped_load_error
                                     + ing_ret.skipped_no_features

\* C10, amended: a run that ends returns None; it prints one status line
\* per candidate and the line "processed success_count/len(artworks)",
\* where success_count is the number of rows saved, so that the candidates
\* are the saved ones plus the printed skips; skips are not counted.
C10_Accounting ==
    /\ ing_pc = "done" =>
          /\ ing_ret = NoneValue
          /\ printed.summary = <<CountLines("ok"), Len(artworks)>>
    /\ ing_pc \in {"loop", "done"} =>
          /\ Len(printed.lines) = ing_idx
          /\ success_count = CountLines("ok")
          /\ ing_idx = success_count + CountLines("download_failed")
                          + CountLines("no_features")

\* Three candidates: one download failed, one without features, one saved.
C10_Witness ==
    /\ ing_pc = "done"
    /\ Len(artworks) = 3
    /\ CountLines("download_failed") = 1
    /\ CountLines("no_features") = 1
    /\ printed.summary = <<1, 3>>

\* C11: a storage write failure on one candidate does not abort the batch:
\* the candidate is recorded as a skip and the later candidates are still
\* processed, so that no run is left by the storage error with candidates
\* unvisited.
C11_WriteFailureSkipped ==
    /\ ing_pc # "raised"
    /\ ing_ret.kind = "error" => ing_idx = Len(artworks)

\* C12: a call whose query image gives no descriptors returns None at once:
\* the store is not read, no row is scanned and nothing is raised,
\* whatever the store holds.
C12_NoFeaturesAbsent ==
    (Returned /\ Len(query_desc) = 0) =>
        /\ result.kind = "None"
        /\ snapshot = << >>
        /\ scan_log = << >>
        /\ best_match = 0

\* A call without query descriptors on a store of two rows, min_matches 0.
C12_Witness ==
    /\ Returned
    /\ Len(query_desc) = 0
    /\ Len(features) >= 2
    /\ min_matches = 0
    /\ result.kind = "None"

\* C13: against an empty store every call returns None: with no row to
\* scan nothing is matched, whatever the query and the gates.
C13_EmptyStoreAbsent ==
    (Returned /\ Len(features) = 0) =>
        /\ result.kind = "None"
        /\ snapshot = << >>
        /\ scan_log = << >>

\* A query with descriptors against the empty store, min_matches 0.
C13_Witness ==
    /\ Returned
    /\ Len(features) = 0
    /\ Len(query_desc) > 0
    /\ min_matches = 0
    /\ result.kind = "None"

C15_StoreUntouched == [][rec_pc' # rec_pc => features' = features]_vars

\* A call that skipped a row the matcher rejected and returned a match,
\* with its two rows still stored.
C15_Witness ==
    /\ Returned
    /\ result.kind = "match"
    /\ raised # {}
    /\ Len(features) >= 2
    /\ snapshot = features

\* C16: a snapshot read while ingestion writes sees, for every artwork,
\* a complete record or none: no two rows for one (artwork_id,
\* feature_type), every row a whole descriptor array of its artwork, the
\* rows those last committed; while a write is uncommitted the artwork's
\* row is the previous one (none if there was none), and once it is
\* committed the row is the new one.
C16_SnapshotAtomic ==
    Returned =>
        /\ \A i, j \in 1..Len(snapshot) :
              ConflictKey(snapshot[i]) = ConflictKey(snapshot[j]) => i = j
        /\ \A i \in 1..Len(snapshot) :
              LET blob == snapshot[i].feature_descriptor
              IN  /\ Len(blob.data) = blob.shape[1] * blob.shape[2]
                  /\ Loads(blob) \in ImageVersions(snapshot[i].artwork_id)
        /\ snapshot = FetchAll(features)
        /\ ing_pc = "executed" =>
              StoredFor(snapshot, <<artworks[ing_idx + 1], "orb">>) = prior
        /\ (ing_pc = "loop" /\ LastLine = "ok") =>
              StoredFor(snapshot, <<artworks[ing_idx], "orb">>) = descriptors

\* A snapshot taken while the replacement of a stored row is uncommitted:
\* it holds the previous descriptors of the artwork.
C16_Witness ==
    /\ Returned
    /\ ing_pc = "executed"
    /\ prior # << >>
    /\ prior # descriptors
    /\ StoredFor(snapshot, <<artworks[ing_idx + 1], "orb">>) = prior
    /\ StoredFor(txn, <<artworks[ing_idx + 1], "orb">>) = descriptors

\* C17: a candidate that is skipped, because its image could not be had or
\* gave no descriptors, leaves table artwork_features as it was, the row
\* stored for that artwork included; and no stored row ever holds an empty
\* descriptor array.
C17_SkipLeavesStore ==
    /\ [](\A i \in 1..Len(features) :
              /\ features[i].feature_descriptor.shape[1] > 0
              /\ Len(Loads(features[i].feature_descriptor)) > 0)
    /\ [][(ing_idx' = ing_idx + 1
           /\ printed'.lines[Len(printed'.lines)] \in {"download_failed", "no_features"})
          => features' = features]_vars

\* A candidate was skipped and the row stored for it by an earlier run is
\* still there.
C17_Witness ==
    /\ ing_pc = "loop"
    /\ LastLine \in {"download_failed", "no_features"}
    /\ StoredFor(features, <<artworks[ing_idx], "orb">>) # << >>

\* C18: between the iterations of the loop of run, and after it, every
\* candidate checked is counted once, as fetch_failed, missing_image,
\* db_failed or saved, and every artwork saved once, as images_downloaded
\* or download_failed; saved never exceeds target_count, and a candidate
\* is processed only while saved is below target_count.
C18_CounterAccounting ==
    /\ stats.saved <= target_count
    /\ run_pc \in {"head", "summary", "done"} =>
          /\ stats.candidates_checked = stats.fetch_failed + stats.missing_image
                                           + stats.db_failed + stats.saved
          /\ stats.saved = stats.images_downloaded + stats.download_failed
          /\ stats.candidates_checked = cand_pos
    /\ run_pc = "fetch" => stats.saved < target_count

\* A run that ends at its target with a candidate left: one fetch failed,
\* one artwork saved whose image download failed.
C18_Witness ==
    /\ run_pc = "done"
    /\ stats.saved = target_count
    /\ cand_pos < Len(candidate_ids)
    /\ stats.fetch_failed = 1
    /\ stats.download_failed = 1

\* C19: a _get_json call makes at most max_retries attempts and returns;
\* it returns the JSON of its first successful attempt, having made no
\* attempt after it and counted no api error; when every attempt fails it
\* returns None after max_retries attempts and has added exactly 1 to
\* api_errors.
C19_GetJsonBounded ==
    /\ [](/\ gj.attempt <= max_retries
          /\ gj.made <= max_retries
          /\ gj.pc = "try" =>
                /\ gj.failed = gj.attempt - 1
                /\ stats.api_errors = gj.errors_before
          /\ (gj.pc = "ret" /\ gj.ret \in JsonKinds) =>
                /\ gj.made >= 1
                /\ gj.failed = gj.made - 1
                /\ stats.api_errors = gj.errors_before
          /\ (gj.pc = "ret" /\ gj.ret = "None" /\ gj.made >= 1) =>
                /\ gj.failed = gj.made
                /\ gj.made = max_retries
                /\ stats.api_errors = gj.errors_before + 1
          /\ (gj.pc = "ret" /\ gj.made = 0) =>
                /\ max_retries = 0
                /\ gj.ret = "None"
                /\ stats.api_errors = gj.errors_before)
    /\ (gj.pc = "try" ~> gj.pc = "ret")

\* A call whose three attempts all failed, after an api error counted
\* before it.
C19_Witness ==
    /\ gj.pc = "ret"
    /\ gj.ret = "None"
    /\ gj.failed = DefaultMaxRetries
    /\ gj.errors_before = 1
    /\ stats.api_errors = 2

====
